---------------------------- MODULE Spec2Model ----------------------------
(***************************************************************************)
(* A model of the BoardsOnFire REST client:                                *)
(*   - BoardsOnFireClient._send_request (client.py), the transport;       *)
(*   - the validators ValidateEntity / ValidateDataSource (endpoints.py); *)
(*   - the single-page list operation of the four collections;            *)
(*   - the list_all generators of the four collections;                   *)
(*   - the create / upsert write operations of Entities and DataSources.  *)
(* Each family of operations has its own specification (SpecSend,         *)
(* SpecList, SpecListAll, SpecWrite); they share the variables below.     *)
(***************************************************************************)
EXTENDS Integers, Sequences, FiniteSets, TLC

VARIABLES
    op,          \* the operation the caller invoked
    pc,          \* position of the running operation
    coll,        \* the collection object the operation is called on
    calls,       \* transport double: the calls made to rest_client._get/_post/...
    \* ---- BoardsOnFireClient._send_request
    method,      \* argument: the HTTP verb
    headersArg,  \* argument: caller-supplied headers (a dict)
    status,      \* response.status_code of the network reply
    content,     \* response.content, a sequence of JSON lexemes
    netCalls,    \* the calls made to requests.request
    decodeCalls, \* the number of response.json() calls
    outcome,     \* what the operation returned or raised
    \* ---- list
    pageSizeArg, \* argument page_size
    pageArg,     \* argument page
    warnings,    \* number of logger.warning calls
    \* ---- list_all
    limit,       \* argument limit (None, or an integer)
    remote,      \* number of records of the remote collection
    params,      \* the params / body dict of the generator
    yield_count, \* local yield_count
    trigger,     \* local trigger (Organizations, Users) / not over_limit (Entities, DataSources)
    data,        \* response.data of the last request
    idx,         \* position of the for loop in response.data
    emitted,     \* the records the consumer has received
    received,    \* the concatenation of the batches the transport returned
    \* ---- create / upsert / update
    payload,     \* argument data
    \* ---- several list_all generators of one collection object
    gens,        \* the frame of each generator: its arguments and locals
    \* ---- upsert
    truncate,    \* argument truncate of Entities.upsert
    \* ---- objects that outlive a call
    client,      \* the fields of the BoardsOnFireClient object
    defaults     \* the default-argument objects of the functions

vars == <<op, pc, coll, calls, method, headersArg, status, content, netCalls,
          decodeCalls, outcome, pageSizeArg, pageArg, warnings, limit, remote,
          params, yield_count, trigger, data, idx, emitted, received, payload,
          gens, truncate, client, defaults>>

sendVars == <<method, headersArg, status, content, netCalls, decodeCalls>>
listVars == <<pageSizeArg, pageArg, warnings>>
listAllVars == <<limit, remote, params, yield_count, trigger, data, idx,
                 emitted, received>>

-----------------------------------------------------------------------------
(* Bounds of the model *)

MaxBodyLen == 3       \* longest response body, in lexemes

-----------------------------------------------------------------------------
(* Values shared by the operations *)

Min(a, b) == IF a <= b THEN a ELSE b

\* Python None in a slot that otherwise holds a JSON value
JsonNull == [t |-> "null", v |-> <<>>]

\* outcome of an operation that has not run yet
NoOutcome == [kind |-> "pending", status_code |-> 0, data |-> JsonNull,
              msg |-> "", code |-> 0, body |-> <<>>]

\* a returned Response(status_code, headers, data=...): dataclass default data=None
Envelope(sc, d) == [kind |-> "Response", status_code |-> sc, data |-> d,
                    msg |-> "", code |-> 0, body |-> <<>>]

\* a raised exception; msg names the message template, code and body the
\* values the template interpolates
Raised(k, m, sc, b) == [kind |-> k, status_code |-> 0, data |-> JsonNull,
                        msg |-> m, code |-> sc, body |-> b]

-----------------------------------------------------------------------------
(* BoardsOnFireClient._send_request *)

Methods == {"GET", "POST", "PATCH", "DELETE"}

\* status codes a reply can carry; every class and the edges of 2xx/4xx/5xx
Statuses == {101, 199, 200, 201, 204, 299, 300, 301, 304, 399, 400, 401,
             403, 404, 405, 428, 429, 430, 499, 500, 503, 599}

Lexemes == {"[", "]", ",", "7"}

RECURSIVE SeqsUpTo(_, _)
SeqsUpTo(S, n) ==
    IF n = 0 THEN {<<>>}
    ELSE LET shorter == SeqsUpTo(S, n - 1)
         IN  shorter \cup {Append(s, x) : s \in {t \in shorter : Len(t) = n - 1}, x \in S}

Bodies == SeqsUpTo(Lexemes, MaxBodyLen)

\* response.json() on a body of lexemes: a number, or a list of numbers
\* separated by commas; anything else raises ValueError.
IsNumber(x) == x = "7"
NumberOf(x) == 7

RECURSIVE ParseItems(_, _)
\* toks follows "[" and its first item; returns the items or "bad"
ParseItems(toks, acc) ==
    IF toks = <<"]">> THEN [ok |-> TRUE, v |-> acc]
    ELSE IF Len(toks) >= 3 /\ toks[1] = "," /\ IsNumber(toks[2])
         THEN ParseItems(SubSeq(toks, 3, Len(toks)), Append(acc, NumberOf(toks[2])))
         ELSE [ok |-> FALSE, v |-> <<>>]

JsonDecode(toks) ==
    IF Len(toks) = 1 /\ IsNumber(toks[1])
    THEN [ok |-> TRUE, value |-> [t |-> "num", v |-> <<NumberOf(toks[1])>>]]
    ELSE IF toks = <<"[", "]">>
    THEN [ok |-> TRUE, value |-> [t |-> "list", v |-> <<>>]]
    ELSE IF Len(toks) >= 3 /\ toks[1] = "[" /\ IsNumber(toks[2])
    THEN LET r == ParseItems(SubSeq(toks, 3, Len(toks)), <<NumberOf(toks[2])>>)
         IN  IF r.ok THEN [ok |-> TRUE, value |-> [t |-> "list", v |-> r.v]]
             ELSE [ok |-> FALSE, value |-> JsonNull]
    ELSE [ok |-> FALSE, value |-> JsonNull]

\* requests.Response.ok: raise_for_status() raises for 400 <= status < 600
\* and for nothing else
ResponseOk(sc) == ~(400 <= sc /\ sc < 600)

ApiKey == "api_key"
BaseHeader == [k \in {"x-api-key"} |-> ApiKey]

\* the dict union with the left operand winning on a shared key
DictMergeLeftWins(a, b) ==
    [k \in (DOMAIN a) \cup (DOMAIN b) |-> IF k \in DOMAIN a THEN a[k] ELSE b[k]]

\* dict union a | b: the right operand wins on a shared key
DictMerge(a, b) ==
    [k \in (DOMAIN a) \cup (DOMAIN b) |-> IF k \in DOMAIN b THEN b[k] ELSE a[k]]

EmptyDict == [k \in {} |-> ""]

Domain == "acme"
Version == "v5"

\* the client after BoardsOnFireClient(domain, api_key); the URL as the
\* pieces the f-string joins
NewClient ==
    [domain |-> Domain,
     url |-> <<"https://", Domain, ".boardsonfireapp.com/api/", Version, "/">>,
     api_key |-> ApiKey,
     version |-> Version]

\* the functions whose organizations parameter defaults to a list object
OrgDefaultOwners == {"Entities", "DataSources"} \X {"list", "list_all"}

\* the default-argument objects as the def statements create them: the dict
\* of _send_request(headers={}) and one list per organizations=[]
FreshDefaults ==
    [headers |-> EmptyDict, organizations |-> [f \in OrgDefaultOwners |-> <<>>]]

HeaderArgs == {EmptyDict,
               [k \in {"x-trace"} |-> "t1"],
               [k \in {"x-api-key"} |-> "other_key"],
               [k \in {"x-api-key", "x-trace"} |-> IF k = "x-trace" THEN "t1" ELSE "other_key"]}

\* whether _send_request calls response.json() on this reply
Decodes(m, sc) == ResponseOk(sc) /\ m # "DELETE"

\* SendOutcome with the DELETE shortcut taken before the status is looked at
SendOutcomeDeleteFirst(m, sc, body) ==
    IF m = "DELETE"
    THEN Envelope(sc, JsonNull)
    ELSE IF ResponseOk(sc)
         THEN IF JsonDecode(body).ok
              THEN Envelope(sc, JsonDecode(body).value)
              ELSE Raised("RestClientException", "invalid_json", 0, <<>>)
    ELSE IF sc = 429 THEN Raised("RateLimitException", "rate_limit", 0, <<>>)
    ELSE IF sc = 404 THEN Raised("NotFoundException", "not_found", 0, <<>>)
    ELSE Raised("RestClientException", "bad_response", sc, body)

\* SendOutcome with the decoding failure swallowed instead of raised
SendOutcomeSwallowDecode(m, sc, body) ==
    IF ResponseOk(sc)
    THEN IF m = "DELETE"
         THEN Envelope(sc, JsonNull)
         ELSE Envelope(sc, JsonDecode(body).value)
    ELSE IF sc = 429 THEN Raised("RateLimitException", "rate_limit", 0, <<>>)
    ELSE IF sc = 404 THEN Raised("NotFoundException", "not_found", 0, <<>>)
    ELSE Raised("RestClientException", "bad_response", sc, body)

\* SendOutcome without the DELETE shortcut: every verb decodes the body
SendOutcomeNoDeleteCase(m, sc, body) ==
    IF ResponseOk(sc)
    THEN IF JsonDecode(body).ok
         THEN Envelope(sc, JsonDecode(body).value)
         ELSE Raised("RestClientException", "invalid_json", 0, <<>>)
    ELSE IF sc = 429 THEN Raised("RateLimitException", "rate_limit", 0, <<>>)
    ELSE IF sc = 404 THEN Raised("NotFoundException", "not_found", 0, <<>>)
    ELSE Raised("RestClientException", "bad_response", sc, body)

\* what _send_request returns or raises for a reply
SendOutcome(m, sc, body) ==
    IF ResponseOk(sc)
    THEN IF m = "DELETE"
         THEN Envelope(sc, JsonNull)
         ELSE IF JsonDecode(body).ok
              THEN Envelope(sc, JsonDecode(body).value)
              ELSE Raised("RestClientException", "invalid_json", 0, <<>>)
    ELSE IF sc = 429 THEN Raised("RateLimitException", "rate_limit", 0, <<>>)
    ELSE IF sc = 404 THEN Raised("NotFoundException", "not_found", 0, <<>>)
    ELSE Raised("RestClientException", "bad_response", sc, body)

InitSend ==
    /\ op = "send"
    /\ pc = "send"
    /\ coll = "client"
    /\ calls = <<>>
    /\ method \in Methods
    /\ headersArg \in HeaderArgs
    /\ status \in Statuses
    /\ content \in Bodies
    /\ netCalls = <<>>
    /\ decodeCalls = 0
    /\ outcome = NoOutcome
    /\ pageSizeArg = 0 /\ pageArg = 0 /\ warnings = 0
    /\ limit = [set |-> FALSE, val |-> 0] /\ remote = 0
    /\ params = [page_size |-> 0, page |-> 0]
    /\ yield_count = 0 /\ trigger = TRUE /\ data = <<>> /\ idx = 0
    /\ emitted = <<>> /\ received = <<>>
    /\ payload = [type |-> "none", dict |-> [k \in {} |-> ""], rows |-> <<>>]
    /\ gens = <<>>
    /\ truncate = FALSE
    /\ client = NewClient
    /\ defaults = FreshDefaults

\* _send_request repeating the network call once when the reply is a failure
SendRequestRetries ==
    /\ pc = "send"
    /\ netCalls' =
          LET call == [method |-> method, headers |-> DictMerge(BaseHeader, headersArg)]
          IN  IF ResponseOk(status) THEN Append(netCalls, call)
              ELSE Append(Append(netCalls, call), call)
    /\ decodeCalls' = IF Decodes(method, status) THEN decodeCalls + 1 ELSE decodeCalls
    /\ outcome' = SendOutcome(method, status, content)
    /\ pc' = "done"
    /\ UNCHANGED <<op, coll, calls, method, headersArg, status, content, payload>>
    /\ UNCHANGED listVars
    /\ UNCHANGED <<gens, truncate, client, defaults>>
    /\ UNCHANGED listAllVars

\* one call of _send_request(method, endpoint, headers=headersArg), the
\* network replying with (status, content)
SendRequest ==
    /\ pc = "send"
    /\ netCalls' = Append(netCalls, [method |-> method,
                                     headers |-> DictMerge(BaseHeader, headersArg)])
    /\ decodeCalls' = IF Decodes(method, status) THEN decodeCalls + 1 ELSE decodeCalls
    /\ outcome' = SendOutcome(method, status, content)
    /\ pc' = "done"
    /\ UNCHANGED <<op, coll, calls, method, headersArg, status, content, payload>>
    /\ UNCHANGED listVars
    /\ UNCHANGED <<gens, truncate, client, defaults>>
    /\ UNCHANGED listAllVars

NextSend == SendRequest

SpecSend == InitSend /\ [][NextSend]_vars

-----------------------------------------------------------------------------
(* The resource collections and the transport double they call *)

MAX_PAGE_SIZE == 500

\* the page size list_all asks for when the limit does not lower it
ListAllPageSize == 100

Collections == {"Organizations", "Users", "Entities", "DataSources"}
WriteCollections == {"Entities", "DataSources"}

\* entity_name / datasource_name of every call of the model
ResourceName == "widget"

\* the endpoint of the listing request of a collection, as path segments
ListEndpoint(c) ==
    CASE c = "Organizations" -> <<"organizations">>
      [] c = "Users"         -> <<"users">>
      [] c = "Entities"      -> <<"entities", ResourceName, "entityobjects", "list">>
      [] c = "DataSources"   -> <<"datasources", ResourceName, "dataobjects", "list">>

\* Organizations and Users list with _get, Entities and DataSources with _post
ListMethod(c) == IF c \in {"Organizations", "Users"} THEN "GET" ELSE "POST"

\* DataSources passes the dict as data=, the others as params=
ListVia(c) == IF c = "DataSources" THEN "data" ELSE "params"

NoPayload == [type |-> "none", dict |-> [k \in {} |-> ""], rows |-> <<>>]

\* a request body: the caller's payload sent as it is ("bare"), or wrapped
\* as {"entity_objects": payload, "delete_others": del} ("import")
BareBody(p) == [shape |-> "bare", payload |-> p, delete_others |-> FALSE]
ImportBody(p, del) == [shape |-> "import", payload |-> p, delete_others |-> del]

\* one recorded call of the transport double; a listing call carries its
\* page_size and page (in params= or in data=, see via)
TransportCall(m, ep, via, ps, pg, body) ==
    [method |-> m, endpoint |-> ep, via |-> via, page_size |-> ps, page |-> pg,
     body |-> body]

ListCall(c, ps, pg) ==
    TransportCall(ListMethod(c), ListEndpoint(c), ListVia(c), ps, pg, BareBody(NoPayload))

\* The remote service holds the records 1..n in its listing order and serves
\* page pg of size ps of them: response.data of a listing request.
ServePage(n, ps, pg) ==
    LET first == (pg - 1) * ps
        cnt   == IF n - first <= 0 THEN 0 ELSE Min(ps, n - first)
    IN  [i \in 1..cnt |-> first + i]

\* what a collection method returns: response.data, a list of records
Returned(d) == [kind |-> "return", status_code |-> 0, data |-> [t |-> "list", v |-> d],
                msg |-> "", code |-> 0, body |-> <<>>]

\* a method that has no return statement
ReturnedNone == [kind |-> "return", status_code |-> 0, data |-> JsonNull,
                 msg |-> "", code |-> 0, body |-> <<>>]

NoLimit == [set |-> FALSE, val |-> 0]
SomeLimit(n) == [set |-> TRUE, val |-> n]

\* the variables the transport model owns, at rest
SendIdle ==
    /\ method = "GET" /\ headersArg = EmptyDict /\ status = 200 /\ content = <<>>
    /\ netCalls = <<>> /\ decodeCalls = 0

ListIdle == pageSizeArg = 0 /\ pageArg = 0 /\ warnings = 0

ListAllIdle ==
    /\ limit = NoLimit
    /\ params = [page_size |-> 0, page |-> 0]
    /\ yield_count = 0 /\ trigger = TRUE /\ data = <<>> /\ idx = 0
    /\ emitted = <<>> /\ received = <<>>

-----------------------------------------------------------------------------
(* list: one page *)

MaxPageArg == 3          \* largest page argument
MaxPageSizeArg == 1000   \* largest page_size argument
MaxListRemote == 600     \* largest remote collection a list call sees

PageSizeArgs == {1, 50, 100, MAX_PAGE_SIZE - 1, MAX_PAGE_SIZE, MAX_PAGE_SIZE + 1,
                 MaxPageSizeArg}

\* the test of the clamp: the warning and the assignment hang on it
OversizedInclusive(ps) == ps >= MAX_PAGE_SIZE

Oversized(ps) == ps > MAX_PAGE_SIZE

ClampedPageSize(ps) == IF Oversized(ps) THEN MAX_PAGE_SIZE ELSE ps

InitList ==
    /\ op = "list"
    /\ pc = "list"
    /\ coll \in Collections
    /\ calls = <<>>
    /\ SendIdle
    /\ outcome = NoOutcome
    /\ pageSizeArg \in PageSizeArgs
    /\ pageArg \in 1..MaxPageArg
    /\ warnings = 0
    /\ remote \in {0, 7, MaxListRemote}
    /\ ListAllIdle
    /\ payload = NoPayload
    /\ gens = <<>>
    /\ truncate = FALSE
    /\ client = NewClient
    /\ defaults = FreshDefaults

\* coll.list(page_size=pageSizeArg, page=pageArg)
List ==
    /\ pc = "list"
    /\ warnings' = IF Oversized(pageSizeArg) THEN warnings + 1 ELSE warnings
    /\ calls' = Append(calls, ListCall(coll, ClampedPageSize(pageSizeArg), pageArg))
    /\ outcome' = Returned(ServePage(remote, ClampedPageSize(pageSizeArg), pageArg))
    /\ pc' = "done"
    /\ UNCHANGED <<op, coll, pageSizeArg, pageArg, remote, payload, gens>>
    /\ UNCHANGED <<truncate, client, defaults>>
    /\ UNCHANGED sendVars
    /\ UNCHANGED <<limit, params, yield_count, trigger, data, idx, emitted, received>>

NextList == List

SpecList == InitList /\ [][NextList]_vars

-----------------------------------------------------------------------------
(* list_all: the paginated generator *)

MaxRecords == 340        \* largest remote collection list_all walks
MaxLimit == 400          \* largest limit argument

\* sizes of the remote collection: empty, one record, short pages, exactly
\* full last pages and the sizes in between
CollectionSizes ==
    {n \in 0..MaxRecords : n % 10 = 0 \/ n % 100 \in {1, 99}} \cup {MaxRecords}

Limits ==
    {NoLimit} \cup {SomeLimit(n) : n \in {0, 1, 50, 99, 100, 101, 200, 250, MaxLimit}}

\* the limit tested with "is not None": 0 counts as a limit
TruthyNotNone(lim) == lim.set

\* truth value of the limit argument: None and 0 are false
Truthy(lim) == lim.set /\ lim.val # 0

\* the page size fixed at 100 whatever the limit
InitialPageSizeIgnoresLimit(lim) == ListAllPageSize

\* min(100, limit if limit else 100)
InitialPageSize(lim) ==
    Min(ListAllPageSize, IF Truthy(lim) THEN lim.val ELSE ListAllPageSize)

\* the limit test taken after the yield with a strict comparison
LimitReachedStrict(lim, yc) == Truthy(lim) /\ yc > lim.val

\* if limit and yield_count >= limit
LimitReached(lim, yc) == Truthy(lim) /\ yc >= lim.val

\* the last-page test taking a full page for the last one
LastPageInclusive(d, ps) == d = <<>> \/ Len(d) <= ps

\* the last-page test without its length comparison
LastPageEmptyOnly(d, ps) == d = <<>>

\* if not response.data or len(response.data) < params["page_size"]
LastPage(d, ps) == d = <<>> \/ Len(d) < ps

\* the page increment skipping a page
NextPageSkips(pg) == pg + 2

\* params["page"] += 1
NextPage(pg) == pg + 1

InitListAll ==
    /\ op = "list_all"
    /\ pc = "created"
    /\ coll \in Collections
    /\ calls = <<>>
    /\ SendIdle
    /\ outcome = NoOutcome
    /\ ListIdle
    /\ limit \in Limits
    /\ remote \in CollectionSizes
    /\ params = [page_size |-> 0, page |-> 0]
    /\ yield_count = 0 /\ trigger = TRUE /\ data = <<>> /\ idx = 0
    /\ emitted = <<>> /\ received = <<>>
    /\ payload = NoPayload
    /\ gens = <<>>
    /\ truncate = FALSE
    /\ client = NewClient
    /\ defaults = FreshDefaults

listAllFrame ==
    /\ UNCHANGED <<op, coll, outcome, payload, limit, remote>>
    /\ UNCHANGED sendVars
    /\ UNCHANGED listVars
    /\ UNCHANGED <<gens, truncate, client, defaults>>

\* the consumer's first next(): the generator body starts, builds its dict
\* and its counters and reaches the while loop
Start ==
    /\ pc = "created"
    /\ params' = [page_size |-> InitialPageSize(limit), page |-> 1]
    /\ yield_count' = 0
    /\ trigger' = TRUE
    /\ pc' = "while"
    /\ UNCHANGED <<calls, data, idx, emitted, received>>
    /\ listAllFrame

\* while trigger: response = rest_client._get / _post(...)
Fetch ==
    /\ pc = "while"
    /\ trigger
    /\ calls' = Append(calls, ListCall(coll, params.page_size, params.page))
    /\ data' = ServePage(remote, params.page_size, params.page)
    /\ received' = received \o ServePage(remote, params.page_size, params.page)
    /\ idx' = 0
    /\ pc' = "for"
    /\ UNCHANGED <<params, yield_count, trigger, emitted>>
    /\ listAllFrame

\* while trigger: with trigger false the generator returns
LoopExit ==
    /\ pc = "while"
    /\ ~trigger
    /\ pc' = "done"
    /\ UNCHANGED <<calls, params, yield_count, trigger, data, idx, emitted, received>>
    /\ listAllFrame

\* for record in response.data: yield_count += 1; yield record
Yield ==
    /\ pc = "for"
    /\ idx < Len(data)
    /\ idx' = idx + 1
    /\ yield_count' = yield_count + 1
    /\ emitted' = Append(emitted, data[idx + 1])
    /\ pc' = "yield"
    /\ UNCHANGED <<calls, params, trigger, data, received>>
    /\ listAllFrame

\* for record in response.data: the batch is exhausted
ForExit ==
    /\ pc = "for"
    /\ idx >= Len(data)
    /\ pc' = "check"
    /\ UNCHANGED <<calls, params, yield_count, trigger, data, idx, emitted, received>>
    /\ listAllFrame

\* the consumer's next() after a yield: the limit test
Resume ==
    /\ pc = "yield"
    /\ IF LimitReached(limit, yield_count)
       THEN trigger' = FALSE /\ pc' = "check"
       ELSE trigger' = trigger /\ pc' = "for"
    /\ UNCHANGED <<calls, params, yield_count, data, idx, emitted, received>>
    /\ listAllFrame

\* the last-page test after the for loop, then params["page"] += 1
Check ==
    /\ pc = "check"
    /\ IF LastPage(data, params.page_size)
       THEN params' = params /\ pc' = "done"
       ELSE params' = [params EXCEPT !.page = NextPage(params.page)] /\ pc' = "while"
    /\ UNCHANGED <<calls, yield_count, trigger, data, idx, emitted, received>>
    /\ listAllFrame

NextListAll == Start \/ Fetch \/ LoopExit \/ Yield \/ ForExit \/ Resume \/ Check

SpecListAll == InitListAll /\ [][NextListAll]_vars

-----------------------------------------------------------------------------
(* list_all against a service that returns whatever batches it likes *)

MaxRequests == 5         \* requests after which the service stops answering

\* the batch lengths a service can answer a request of page size ps with:
\* empty, short, exactly full, and longer than asked
BatchLengths(ps) == {n \in {0, 1, ps - 1, ps, ps + 1} : n >= 0}

AnyLimits ==
    {NoLimit} \cup {SomeLimit(n) : n \in {1, 2, 99, 100, 101, 250, MaxLimit}}

\* a batch of len records the service has not served before
FreshBatch(served, len) == [i \in 1..len |-> Len(served) + i]

InitListAllAny ==
    /\ op = "list_all"
    /\ pc = "created"
    /\ coll \in Collections
    /\ calls = <<>>
    /\ SendIdle
    /\ outcome = NoOutcome
    /\ ListIdle
    /\ limit \in AnyLimits
    /\ remote = 0
    /\ params = [page_size |-> 0, page |-> 0]
    /\ yield_count = 0 /\ trigger = TRUE /\ data = <<>> /\ idx = 0
    /\ emitted = <<>> /\ received = <<>>
    /\ payload = NoPayload
    /\ gens = <<>>
    /\ truncate = FALSE
    /\ client = NewClient
    /\ defaults = FreshDefaults

\* while trigger: response = rest_client._get / _post(...), the service
\* answering with a batch of its choice
FetchAny ==
    /\ pc = "while"
    /\ trigger
    /\ Len(calls) < MaxRequests
    /\ \E len \in BatchLengths(params.page_size) :
          /\ data' = FreshBatch(received, len)
          /\ received' = received \o FreshBatch(received, len)
    /\ calls' = Append(calls, ListCall(coll, params.page_size, params.page))
    /\ idx' = 0
    /\ pc' = "for"
    /\ UNCHANGED <<params, yield_count, trigger, emitted>>
    /\ listAllFrame

NextListAllAny == Start \/ FetchAny \/ LoopExit \/ Yield \/ ForExit \/ Resume \/ Check

SpecListAllAny == InitListAllAny /\ [][NextListAllAny]_vars

\* the consumer keeps calling next() and the generator body keeps running
SpecListAllAnyFair == SpecListAllAny /\ WF_vars(NextListAllAny)

-----------------------------------------------------------------------------
(* list_all with a transport that can fail *)

\* reply statuses that make _send_request raise: one per exception
TransportFailures == {429, 404, 500}

\* the failed request repeated instead of the exception leaving the generator
FetchRaisesRetries ==
    /\ pc = "while"
    /\ trigger
    /\ \E sc \in TransportFailures :
          SendOutcome(ListMethod(coll), sc, <<>>).kind # "Response"
    /\ calls' = Append(calls, ListCall(coll, params.page_size, params.page))
    /\ pc' = "while"
    /\ UNCHANGED <<params, yield_count, trigger, data, idx, emitted, received>>
    /\ listAllFrame

\* while trigger: response = rest_client._get / _post(...) raising: nothing
\* in the generator catches it, so it leaves the generator, which is
\* finished from then on
FetchRaises ==
    /\ pc = "while"
    /\ trigger
    /\ \E sc \in TransportFailures :
          /\ SendOutcome(ListMethod(coll), sc, <<>>).kind # "Response"
          /\ outcome' = SendOutcome(ListMethod(coll), sc, <<>>)
    /\ calls' = Append(calls, ListCall(coll, params.page_size, params.page))
    /\ pc' = "raised"
    /\ UNCHANGED <<op, coll, payload, limit, remote>>
    /\ UNCHANGED <<params, yield_count, trigger, data, idx, emitted, received>>
    /\ UNCHANGED sendVars
    /\ UNCHANGED listVars
    /\ UNCHANGED <<gens, truncate, client, defaults>>

NextListAllErr ==
    Start \/ Fetch \/ FetchRaises \/ LoopExit \/ Yield \/ ForExit \/ Resume \/ Check

SpecListAllErr == InitListAll /\ [][NextListAllErr]_vars

-----------------------------------------------------------------------------
(* Several list_all generators of one collection object, driven by their    *)
(* consumers.  Python runs a generator from one next() to its next yield    *)
(* without interruption, so an advance is one step; the statements inside   *)
(* it are those of the actions Start .. Check above, applied to the frame   *)
(* of the generator.                                                        *)

MaxPairRemote == 120     \* largest remote collection two generators walk

PairSizes == {0, 100, MaxPairRemote}
FirstLimits == {NoLimit, SomeLimit(100)}
SecondLimits == {SomeLimit(50), SomeLimit(101)}

\* the frame of list_all(limit=lim) before its first next()
NewGen(lim) ==
    [pc |-> "created", limit |-> lim, params |-> [page_size |-> 0, page |-> 0],
     yield_count |-> 0, trigger |-> TRUE, data |-> <<>>, idx |-> 0,
     emitted |-> <<>>, requests |-> <<>>]

\* one statement of the generator body on the frame g, over a collection c
\* whose service holds n records
GenStep(g, c, n) ==
    CASE g.pc = "created" ->
            [g EXCEPT !.params = [page_size |-> InitialPageSize(g.limit), page |-> 1],
                      !.yield_count = 0, !.trigger = TRUE, !.pc = "while"]
      [] g.pc = "while" ->
            IF g.trigger
            THEN [g EXCEPT !.requests = Append(@, ListCall(c, g.params.page_size,
                                                           g.params.page)),
                           !.data = ServePage(n, g.params.page_size, g.params.page),
                           !.idx = 0, !.pc = "for"]
            ELSE [g EXCEPT !.pc = "done"]
      [] g.pc = "for" ->
            IF g.idx < Len(g.data)
            THEN [g EXCEPT !.idx = @ + 1, !.yield_count = @ + 1,
                           !.emitted = Append(@, g.data[g.idx + 1]), !.pc = "yield"]
            ELSE [g EXCEPT !.pc = "check"]
      [] g.pc = "yield" ->
            IF LimitReached(g.limit, g.yield_count)
            THEN [g EXCEPT !.trigger = FALSE, !.pc = "check"]
            ELSE [g EXCEPT !.pc = "for"]
      [] g.pc = "check" ->
            IF LastPage(g.data, g.params.page_size)
            THEN [g EXCEPT !.pc = "done"]
            ELSE [g EXCEPT !.params.page = NextPage(@), !.pc = "while"]
      [] OTHER -> g

\* the body runs until it yields or returns
RECURSIVE RunToYield(_, _, _)
RunToYield(g, c, n) ==
    IF g.pc \in {"yield", "done"} THEN g ELSE RunToYield(GenStep(g, c, n), c, n)

\* an advance that also requests the next page as soon as a full batch has
\* been handed out
AdvanceGenPrefetch(g, c, n) ==
    LET h == RunToYield(GenStep(g, c, n), c, n)
    IN  IF h.pc = "yield" /\ h.idx = Len(h.data) /\ ~LastPage(h.data, h.params.page_size)
        THEN [h EXCEPT !.requests = Append(@, ListCall(c, h.params.page_size,
                                                       NextPage(h.params.page)))]
        ELSE h

\* next() on a generator that is new or suspended at its yield
AdvanceGen(g, c, n) == RunToYield(GenStep(g, c, n), c, n)

\* every generator reading the dict of the first one
SharedParams(gs, i) == gs[1].params

\* params is a local of the call: each generator has its own dict
OwnParams(gs, i) == gs[i].params

InitIterators ==
    /\ op = "list_all"
    /\ pc = "iterating"
    /\ coll \in {"Entities", "DataSources"}
    /\ calls = <<>>
    /\ SendIdle
    /\ outcome = NoOutcome
    /\ ListIdle
    /\ remote \in PairSizes
    /\ ListAllIdle
    /\ payload = NoPayload
    /\ gens \in {<<NewGen(a), NewGen(b)>> : a \in FirstLimits, b \in SecondLimits}
    /\ truncate = FALSE
    /\ client = NewClient
    /\ defaults = FreshDefaults

iteratorsFrame ==
    /\ UNCHANGED <<op, pc, coll, calls, outcome, payload>>
    /\ UNCHANGED <<truncate, client, defaults>>
    /\ UNCHANGED sendVars
    /\ UNCHANGED listVars
    /\ UNCHANGED listAllVars

\* the consumer of generator i calls next()
Advance(i) ==
    /\ gens[i].pc \in {"created", "yield"}
    /\ gens' = [gens EXCEPT
                  ![i] = AdvanceGen([gens[i] EXCEPT !.params = OwnParams(gens, i)],
                                    coll, remote)]
    /\ iteratorsFrame

\* the consumer of generator i stops iterating: the generator never runs again
Abandon(i) ==
    /\ gens[i].pc = "yield"
    /\ gens' = [gens EXCEPT ![i].pc = "abandoned"]
    /\ iteratorsFrame

NextIterators == \E i \in 1..2 : Advance(i) \/ Abandon(i)

SpecIterators == InitIterators /\ [][NextIterators]_vars

-----------------------------------------------------------------------------
(* The validators and the write operations create / upsert *)

MaxRows == 2             \* longest upsert payload

PayloadKeys == {"organization_id", "timestamp", "name"}

\* the payload dicts: every key set over PayloadKeys
Dicts == UNION {[K -> {"x"}] : K \in SUBSET PayloadKeys}

\* set(data) of a dict: its keys
KeySet(d) == DOMAIN d

\* ValidateEntity.create(data): TRUE when it raises ValidationError
ValidateEntity_create(d) == ~({"organization_id"} \subseteq KeySet(d))

\* the upsert check written with any() in place of all()
ValidateEntity_upsert_any(p) ==
    \/ p.type # "list"
    \/ ~(\E i \in 1..Len(p.rows) : {"organization_id"} \subseteq KeySet(p.rows[i]))

\* the upsert check refusing a list without rows
ValidateEntity_upsert_nonempty(p) ==
    \/ p.type # "list"
    \/ Len(p.rows) = 0
    \/ ~(\A i \in 1..Len(p.rows) : {"organization_id"} \subseteq KeySet(p.rows[i]))

\* ValidateEntity.upsert(data): TRUE when it raises ValidationError
ValidateEntity_upsert(p) ==
    \/ p.type # "list"
    \/ ~(\A i \in 1..Len(p.rows) : {"organization_id"} \subseteq KeySet(p.rows[i]))

\* ValidateDataSource.create(data): TRUE when it raises ValidationError
ValidateDataSource_create(d) == ~({"organization_id", "timestamp"} \subseteq KeySet(d))

\* ValidateDataSource.upsert(data): TRUE when it raises ValidationError
ValidateDataSource_upsert(p) ==
    \/ p.type # "list"
    \/ ~(\A i \in 1..Len(p.rows) :
            {"organization_id", "timestamp"} \subseteq KeySet(p.rows[i]))

DictPayload(d) == [type |-> "dict", dict |-> d, rows |-> <<>>]

\* an upsert argument: a list of dicts, or (against the annotation) a tuple
\* of dicts or a single dict
RowsPayload(t, rows) == [type |-> t, dict |-> [k \in {} |-> ""], rows |-> rows]

CreatePayloads == {DictPayload(d) : d \in Dicts}

UpsertPayloads ==
    {RowsPayload(t, rows) : t \in {"list", "tuple"}, rows \in SeqsUpTo(Dicts, MaxRows)}
        \cup {DictPayload(d) : d \in Dicts}

CreateEndpoint(c) ==
    IF c = "Entities" THEN <<"entities", ResourceName, "entityobjects">>
    ELSE <<"datasources", ResourceName, "dataobjects">>

UpsertEndpoint(c) ==
    IF c = "Entities" THEN <<"entities", ResourceName, "entityobjects", "import">>
    ELSE <<"datasources", ResourceName, "dataobjects", "import">>

\* the validator a write operation runs: TRUE when it raises
CreateRaises(c, p) ==
    IF c = "Entities" THEN ValidateEntity_create(p.dict)
    ELSE ValidateDataSource_create(p.dict)

UpsertRaises(c, p) ==
    IF c = "Entities" THEN ValidateEntity_upsert(p) ELSE ValidateDataSource_upsert(p)

ValidationError == Raised("ValidationError", "required", 0, <<>>)

\* response.data the transport double gives a write operation
WriteReplies == {<<>>, <<11>>, <<11, 12>>}

\* id of the object update and delete address
ObjectId == "42"

\* entities/{entity_name}/entityobjects/{id}
ObjectEndpoint(c) ==
    IF c = "Entities" THEN <<"entities", ResourceName, "entityobjects", ObjectId>>
    ELSE <<"datasources", ResourceName, "dataobjects", ObjectId>>

\* create posting to the import path of upsert
CallsAfterCreate_import_path(c, p, before) ==
    IF CreateRaises(c, p) THEN before
    ELSE Append(before, TransportCall("POST", UpsertEndpoint(c), "data", 0, 0, BareBody(p)))

\* create with the request sent before the validator runs
CallsAfterCreate_post_first(c, p, before) ==
    Append(before, TransportCall("POST", CreateEndpoint(c), "data", 0, 0, BareBody(p)))

\* the transport calls after create(name, data): none is added when the
\* validator raises
CallsAfterCreate(c, p, before) ==
    IF CreateRaises(c, p) THEN before
    ELSE Append(before, TransportCall("POST", CreateEndpoint(c), "data", 0, 0, BareBody(p)))

\* the transport calls after upsert(name, data, truncate): Entities wraps the
\* rows with delete_others, DataSources sends them bare
CallsAfterUpsert(c, p, del, before) ==
    IF UpsertRaises(c, p) THEN before
    ELSE Append(before, TransportCall("POST", UpsertEndpoint(c), "data", 0, 0,
                                      IF c = "Entities" THEN ImportBody(p, del)
                                      ELSE BareBody(p)))

InitWrite ==
    /\ op \in {"create", "upsert", "update", "delete"}
    /\ pc = op
    /\ coll \in WriteCollections
    /\ calls = <<>>
    /\ SendIdle
    /\ outcome = NoOutcome
    /\ ListIdle
    /\ remote = 0
    /\ ListAllIdle
    /\ payload \in CASE op \in {"create", "update"} -> CreatePayloads
                     [] op = "upsert" -> UpsertPayloads
                     [] op = "delete" -> {NoPayload}
    /\ gens = <<>>
    /\ truncate \in IF op = "upsert" /\ coll = "Entities" THEN BOOLEAN ELSE {FALSE}
    /\ client = NewClient
    /\ defaults = FreshDefaults

writeFrame ==
    /\ UNCHANGED <<op, coll, payload>>
    /\ UNCHANGED sendVars
    /\ UNCHANGED listVars
    /\ UNCHANGED <<gens, truncate, client, defaults>>
    /\ UNCHANGED <<limit, remote, params, yield_count, trigger, idx, emitted, received>>

\* coll.create(name, payload); data is response.data of the transport double
Create ==
    /\ pc = "create"
    /\ \E reply \in WriteReplies :
          /\ calls' = CallsAfterCreate(coll, payload, calls)
          /\ data' = IF CreateRaises(coll, payload) THEN data ELSE reply
          /\ outcome' = IF CreateRaises(coll, payload) THEN ValidationError
                        ELSE Returned(reply)
    /\ pc' = "done"
    /\ writeFrame

\* coll.upsert(name, payload, truncate); DataSources.upsert has no truncate
Upsert ==
    /\ pc = "upsert"
    /\ \E reply \in WriteReplies :
          /\ calls' = CallsAfterUpsert(coll, payload, truncate, calls)
          /\ data' = IF UpsertRaises(coll, payload) THEN data ELSE reply
          /\ outcome' = IF UpsertRaises(coll, payload) THEN ValidationError
                        ELSE Returned(reply)
    /\ pc' = "done"
    /\ writeFrame

\* update running the create validator before the request
UpdateValidates ==
    /\ pc = "update"
    /\ \E reply \in WriteReplies :
          /\ calls' = IF CreateRaises(coll, payload) THEN calls
                      ELSE Append(calls, TransportCall("PATCH", ObjectEndpoint(coll),
                                                       "data", 0, 0, BareBody(payload)))
          /\ data' = IF CreateRaises(coll, payload) THEN data ELSE reply
          /\ outcome' = IF CreateRaises(coll, payload) THEN ValidationError
                        ELSE Returned(reply)
    /\ pc' = "done"
    /\ writeFrame

\* coll.update(name, id, payload): no validator runs
Update ==
    /\ pc = "update"
    /\ \E reply \in WriteReplies :
          /\ calls' = Append(calls, TransportCall("PATCH", ObjectEndpoint(coll),
                                                  "data", 0, 0, BareBody(payload)))
          /\ data' = reply
          /\ outcome' = Returned(reply)
    /\ pc' = "done"
    /\ writeFrame

\* coll.delete(name, id): the response of _delete is dropped
Delete ==
    /\ pc = "delete"
    /\ \E reply \in WriteReplies :
          /\ calls' = Append(calls, TransportCall("DELETE", ObjectEndpoint(coll),
                                                  "none", 0, 0, BareBody(NoPayload)))
          /\ data' = reply
          /\ outcome' = ReturnedNone
    /\ pc' = "done"
    /\ writeFrame

NextWrite == Create \/ Upsert \/ Update \/ Delete

SpecWrite == InitWrite /\ [][NextWrite]_vars

-----------------------------------------------------------------------------
(* A session: several operations, one after the other, on one client.  The  *)
(* default-argument objects and the client's fields outlive every call; an  *)
(* argument is either omitted (the parameter is bound to the default        *)
(* object) or given by the caller.  The service answers every request with  *)
(* success.                                                                 *)

MaxSessionCalls == 3     \* operations in one session

Omitted == [given |-> FALSE, val |-> <<>>]
Given(v) == [given |-> TRUE, val |-> v]

HeaderOpts == {Omitted, Given([k \in {"x-trace"} |-> "t1"]),
               Given([k \in {"x-api-key"} |-> "other_key"])}
OrgOpts == {Omitted, Given(<<"o1">>), Given(<<"o1", "o2">>)}

\* ",".join(organizations), as the pieces of the string
RECURSIVE Join(_)
Join(orgs) ==
    IF Len(orgs) = 0 THEN <<>>
    ELSE IF Len(orgs) = 1 THEN <<orgs[1]>>
    ELSE <<orgs[1], ",">> \o Join(Tail(orgs))

\* the object the parameter headers of _send_request is bound to
BoundHeaders(arg, dflt) == IF arg.given THEN arg.val ELSE dflt.headers

\* the object the parameter organizations of c.f is bound to
BoundOrganizations(arg, dflt, c, f) ==
    IF arg.given THEN arg.val ELSE dflt.organizations[<<c, f>>]

\* the merge done in place on the object headers is bound to
DefaultsAfterSend_in_place(arg, dflt, cl) ==
    IF arg.given THEN dflt
    ELSE [dflt EXCEPT !.headers = DictMerge(@, [k \in {"x-api-key"} |-> cl.api_key])]

\* the default objects after _send_request: base_header | headers builds a
\* new dict and rebinds the local name, no object is written
DefaultsAfterSend(arg, dflt, cl) == dflt

\* the call of requests.request that _send_request makes; by is the
\* operation of the session that caused it
NetCall(cl, dflt, m, ep, harg, has_target, target, by) ==
    [method |-> m, url |-> cl.url \o ep,
     headers |-> DictMerge([k \in {"x-api-key"} |-> cl.api_key], BoundHeaders(harg, dflt)),
     has_target |-> has_target, target_organization_ids |-> target, by |-> by]

\* one operation of the session as the caller wrote it
SessionCall(o, c, harg, oarg) ==
    [op |-> o, coll |-> c, headers |-> harg, organizations |-> oarg]

\* the page requests of list_all() without a limit, consumed to its end over
\* n records: the loop goes on from page pg until a batch is short
RECURSIVE PagesWalked(_, _)
PagesWalked(n, pg) ==
    IF LastPage(ServePage(n, InitialPageSize(NoLimit), pg), InitialPageSize(NoLimit))
    THEN pg
    ELSE PagesWalked(n, NextPage(pg))

\* the same request sent k times
RECURSIVE Repeat(_, _)
Repeat(x, k) == IF k = 0 THEN <<>> ELSE <<x>> \o Repeat(x, k - 1)

InitSession ==
    /\ op = "none"
    /\ pc = "session"
    /\ coll = "client"
    /\ calls = <<>>
    /\ SendIdle
    /\ outcome = NoOutcome
    /\ ListIdle
    /\ remote \in {0, ListAllPageSize}
    /\ ListAllIdle
    /\ payload = NoPayload
    /\ gens = <<>>
    /\ truncate = FALSE
    /\ client = NewClient
    /\ defaults = FreshDefaults

sessionFrame ==
    /\ pc' = pc
    /\ UNCHANGED <<method, headersArg, status, content, decodeCalls, outcome>>
    /\ UNCHANGED listVars
    /\ UNCHANGED listAllVars
    /\ UNCHANGED <<payload, gens, truncate>>

\* client._send_request(m, endpoint), with or without headers=
SessionSend ==
    /\ Len(calls) < MaxSessionCalls
    /\ \E m \in {"GET", "DELETE"}, harg \in HeaderOpts :
          /\ calls' = Append(calls, SessionCall("send", "client", harg, Omitted))
          /\ netCalls' = Append(netCalls,
                                NetCall(client, defaults, m, <<"organizations">>, harg,
                                        FALSE, <<>>, Len(calls) + 1))
          /\ defaults' = DefaultsAfterSend(harg, defaults, client)
    /\ op' = "send" /\ coll' = "client"
    /\ client' = client
    /\ sessionFrame

\* c.list(name), with or without organizations=; _post passes no headers
SessionList ==
    /\ Len(calls) < MaxSessionCalls
    /\ \E c \in WriteCollections, oarg \in OrgOpts :
          /\ calls' = Append(calls, SessionCall("list", c, Omitted, oarg))
          /\ netCalls' = Append(netCalls,
                                NetCall(client, defaults, ListMethod(c), ListEndpoint(c),
                                        Omitted, TRUE,
                                        Join(BoundOrganizations(oarg, defaults, c, "list")),
                                        Len(calls) + 1))
          /\ defaults' = DefaultsAfterSend(Omitted, defaults, client)
          /\ coll' = c
    /\ op' = "list"
    /\ client' = client
    /\ sessionFrame

\* c.list_all(name) consumed to its end, with or without organizations=: the
\* dict is built once, every page request carries the same string
SessionListAll ==
    /\ Len(calls) < MaxSessionCalls
    /\ \E c \in WriteCollections, oarg \in OrgOpts :
          /\ calls' = Append(calls, SessionCall("list_all", c, Omitted, oarg))
          /\ netCalls' = netCalls \o
                Repeat(NetCall(client, defaults, ListMethod(c), ListEndpoint(c),
                               Omitted, TRUE,
                               Join(BoundOrganizations(oarg, defaults, c, "list_all")),
                               Len(calls) + 1),
                       PagesWalked(remote, 1))
          /\ defaults' = DefaultsAfterSend(Omitted, defaults, client)
          /\ coll' = c
    /\ op' = "list_all"
    /\ client' = client
    /\ sessionFrame

\* Entities.create(name, data) with a valid dict, or Entities.delete(name, id)
SessionWrite ==
    /\ Len(calls) < MaxSessionCalls
    /\ \E w \in {"create", "delete"} :
          /\ calls' = Append(calls, SessionCall(w, "Entities", Omitted, Omitted))
          /\ netCalls' = Append(netCalls,
                                NetCall(client, defaults,
                                        IF w = "create" THEN "POST" ELSE "DELETE",
                                        IF w = "create" THEN CreateEndpoint("Entities")
                                        ELSE ObjectEndpoint("Entities"),
                                        Omitted, FALSE, <<>>, Len(calls) + 1))
          /\ defaults' = DefaultsAfterSend(Omitted, defaults, client)
          /\ op' = w
    /\ coll' = "Entities"
    /\ client' = client
    /\ sessionFrame

NextSession == SessionSend \/ SessionList \/ SessionListAll \/ SessionWrite

SpecSession == InitSession /\ [][NextSession]_vars

-----------------------------------------------------------------------------
(* Properties of _send_request, checked under SpecSend *)

Is2xx(sc) == 200 <= sc /\ sc <= 299
SendDone == pc = "done" /\ op = "send"
ReturnsEnvelope == outcome.kind = "Response"

\* C5: for every verb, DELETE included, a 429 reply raises RateLimitException,
\* a 404 reply raises NotFoundException and a 400 reply raises
\* RestClientException; none of them returns a Response.
C5_FailureStatusesRaise ==
    SendDone =>
        /\ status = 429 => outcome.kind = "RateLimitException"
        /\ status = 404 => outcome.kind = "NotFoundException"
        /\ status = 400 => outcome.kind = "RestClientException"
        /\ status \in {400, 404, 429} => ~ReturnsEnvelope

C5_Witness ==
    /\ SendDone /\ method = "DELETE" /\ status = 429
    /\ outcome.kind = "RateLimitException"

\* C6: every reply whose status is outside 200..299 and is neither 404 nor
\* 429 raises RestClientException carrying the status code and the raw body,
\* and never returns a Response.
C6_OnlyTwoXXSucceeds ==
    (SendDone /\ ~Is2xx(status) /\ status \notin {404, 429}) =>
        /\ ~ReturnsEnvelope
        /\ outcome.kind = "RestClientException"
        /\ outcome.msg = "bad_response"
        /\ outcome.code = status
        /\ outcome.body = content

\* C7: for a verb other than DELETE and a 2xx reply, an undecodable body
\* raises RestClientException and a decodable body returns a Response whose
\* data is the decoded body.
C7_DecodeOrRaise ==
    (SendDone /\ method # "DELETE" /\ Is2xx(status)) =>
        IF JsonDecode(content).ok
        THEN /\ ReturnsEnvelope
             /\ outcome.status_code = status
             /\ outcome.data = JsonDecode(content).value
        ELSE /\ outcome.kind = "RestClientException"
             /\ outcome.msg = "invalid_json"

C7_Witness ==
    /\ SendDone /\ method = "POST" /\ status = 201
    /\ content = <<"[", "7", "]">>
    /\ outcome.data = [t |-> "list", v |-> <<7>>]

C11_OneNetworkCall ==
    /\ (op = "send" /\ pc = "send") => (netCalls = <<>> /\ outcome.kind = "pending")
    /\ SendDone =>
          /\ Len(netCalls) = 1
          /\ netCalls[1].method = method
          /\ outcome.kind \in {"Response", "RateLimitException", "NotFoundException",
                               "RestClientException"}

C11_Witness ==
    /\ SendDone /\ status = 429 /\ outcome.kind = "RateLimitException"
    /\ Len(netCalls) = 1

\* C14: the headers sent are the auth header overridden by the caller's
\* headers: every caller key goes out with the caller's value, and x-api-key
\* goes out with the API key unless the caller supplied x-api-key itself.
C14_HeadersMerged ==
    SendDone =>
        LET sent == netCalls[1].headers
        IN  /\ DOMAIN sent = {"x-api-key"} \cup DOMAIN headersArg
            /\ \A k \in DOMAIN headersArg : sent[k] = headersArg[k]
            /\ "x-api-key" \notin DOMAIN headersArg => sent["x-api-key"] = "api_key"

C14_Witness ==
    /\ SendDone
    /\ DOMAIN headersArg = {"x-api-key", "x-trace"}
    /\ netCalls[1].headers["x-api-key"] = "other_key"
    /\ netCalls[1].headers["x-trace"] = "t1"

-----------------------------------------------------------------------------
(* Properties of list_all, checked under SpecListAll *)

\* the records 1..n in the remote listing order
FirstRecords(n) == [i \in 1..n |-> i]

\* C2: without a limit, over a remote collection of N records served in
\* pages of the requested size, list_all emits exactly the N records and
\* issues floor(N/100)+1 requests: 340 records take 4 requests, an empty
\* collection 1 request, and an exactly full last page is followed by one
\* more request that returns an empty batch.
C2_NoLimitWalksAll ==
    (pc = "done" /\ limit = NoLimit) =>
        /\ emitted = FirstRecords(remote)
        /\ Len(calls) = (remote \div 100) + 1
        /\ remote = 340 => Len(calls) = 4
        /\ remote = 0 => Len(calls) = 1
        /\ (remote > 0 /\ remote % 100 = 0) => data = <<>>

C2_Witness ==
    /\ pc = "done" /\ limit = NoLimit /\ remote = 300
    /\ Len(emitted) = 300 /\ Len(calls) = 4 /\ data = <<>>

\* the limit L >= 1 of the call has been emitted
C3_LimitEmitted == limit.set /\ limit.val >= 1 /\ Len(emitted) >= limit.val

\* C3: with a limit L >= 1 list_all emits exactly min(L, N) records, and once
\* the L-th record is emitted it issues no further request and emits no
\* further record, even with records of the current batch left; 340 records
\* with limit 250 take 3 requests.
C3_LimitStops ==
    /\ [](/\ (limit.set /\ limit.val >= 1) => Len(emitted) <= limit.val
          /\ (pc = "done" /\ limit.set /\ limit.val >= 1) =>
                 /\ emitted = FirstRecords(Min(limit.val, remote))
                 /\ (remote = 340 /\ limit.val = 250) => Len(calls) = 3)
    /\ [][C3_LimitEmitted => (calls' = calls /\ emitted' = emitted)]_vars

C3_Witness ==
    /\ pc = "done" /\ remote = 340 /\ limit = SomeLimit(250)
    /\ Len(emitted) = 250 /\ Len(calls) = 3
    /\ idx < Len(data)

\* C4: the k-th request carries page k, and the emitted sequence is the
\* concatenation of the received batches, in request order and in the order
\* of each batch: a prefix of it at every moment, all of it before each
\* further request and at the end unless the limit cut it.
C4_PagesAndOrder ==
    /\ \A k \in 1..Len(calls) : calls[k].page = k
    /\ Len(emitted) <= Len(received)
    /\ emitted = SubSeq(received, 1, Len(emitted))
    /\ (pc = "while" /\ trigger) => emitted = received
    /\ (pc = "done" /\ ~(limit.set /\ limit.val # 0 /\ Len(emitted) >= limit.val))
           => emitted = received

C4_Witness ==
    /\ pc = "done" /\ Len(calls) = 4 /\ calls[4].page = 4
    /\ Len(emitted) = 340 /\ emitted = received

\* C12: every request of one list_all iteration carries the same page size,
\* min(100, limit) for a limit >= 1 and 100 without a limit; the first
\* request asks for page 1, and the page size never exceeds 100, so never
\* the maximum of 500.
C12_PageSizeFixed ==
    /\ \A k \in 1..Len(calls) :
          /\ limit.set /\ limit.val >= 1 => calls[k].page_size = Min(100, limit.val)
          /\ ~limit.set => calls[k].page_size = 100
          /\ calls[k].page_size = calls[1].page_size
          /\ calls[k].page_size <= 100
          /\ calls[k].page_size <= MAX_PAGE_SIZE
    /\ calls # <<>> => calls[1].page = 1

C12_Witness ==
    /\ pc = "done" /\ limit = SomeLimit(50) /\ remote >= 50
    /\ Len(calls) = 1 /\ calls[1].page_size = 50 /\ calls[1].page = 1

-----------------------------------------------------------------------------
(* Termination of list_all, checked under SpecListAllAnyFair *)

\* ceil(a / b) for b >= 1
CeilDiv(a, b) == (a + b - 1) \div b

C15_Limited == limit.set /\ limit.val >= 1

\* C15: with a limit L >= 1 list_all ends after at most ceil(L / min(100, L))
\* requests whatever batches the service returns, full pages forever
\* included; without a limit it ends exactly when the service returns an
\* empty batch or one shorter than the page size: such a batch leads to the
\* end, and the end is reached only after such a batch.
C15_Termination ==
    /\ [](C15_Limited => Len(calls) <= CeilDiv(limit.val, Min(100, limit.val)))
    /\ (C15_Limited => <>(pc = "done"))
    /\ []((~limit.set /\ pc = "done") => Len(data) < 100)
    /\ ((~limit.set /\ pc = "for" /\ Len(data) < 100) ~> pc = "done")
    /\ [][(~limit.set /\ pc \in {"for", "yield", "check"} /\ Len(data) < 100)
             => calls' = calls]_vars

C15_Witness ==
    /\ pc = "done" /\ limit = SomeLimit(250)
    /\ Len(calls) = 3 /\ Len(emitted) = 250 /\ Len(data) = 101

-----------------------------------------------------------------------------
(* Transport failures inside list_all, checked under SpecListAllErr *)

\* C16: when the transport raises on the request for page k, the exception
\* reaches the consumer on that advance, page k has been requested once, no
\* request follows, and the records of the pages 1..k-1 have all been
\* emitted, unchanged and in order.
C16_ErrorPropagates ==
    /\ [](/\ \A j \in 1..Len(calls) : calls[j].page = j
          /\ pc = "raised" =>
                /\ outcome.kind \in {"RateLimitException", "NotFoundException",
                                     "RestClientException"}
                /\ emitted = received
                /\ emitted = FirstRecords((Len(calls) - 1) * params.page_size)
          /\ pc # "raised" => outcome.kind = "pending")
    /\ [][pc = "raised" => (calls' = calls /\ emitted' = emitted /\ pc' = "raised")]_vars

C16_Witness ==
    /\ pc = "raised" /\ outcome.kind = "RateLimitException"
    /\ Len(calls) = 3 /\ calls[3].page = 3 /\ Len(emitted) = 200

-----------------------------------------------------------------------------
(* Laziness and independence of generators, checked under SpecIterators *)

\* C17: list_all is lazy: a generator that was only created has issued no
\* request, an advance issues at most one request, page k+1 is requested
\* only once every record of the pages up to k has been handed out, and a
\* consumer that has taken m records (and may stop there) has caused only
\* the requests those m records needed.
C17_Lazy ==
    /\ [](\A i \in DOMAIN gens :
            /\ gens[i].pc = "created" => gens[i].requests = <<>>
            /\ gens[i].pc \in {"yield", "abandoned"} =>
                  Len(gens[i].requests) =
                      ((Len(gens[i].emitted) - 1) \div gens[i].params.page_size) + 1)
    /\ [][\A i \in DOMAIN gens :
            /\ Len(gens'[i].requests) <= Len(gens[i].requests) + 1
            /\ Len(gens'[i].requests) > Len(gens[i].requests) =>
                  Len(gens[i].emitted) =
                      Len(gens[i].requests) * gens'[i].params.page_size
            /\ gens[i].pc = "abandoned" => gens'[i] = gens[i]]_vars

C17_Witness ==
    /\ op = "list_all" /\ pc = "iterating" /\ remote = MaxPairRemote
    /\ gens[1].pc = "abandoned" /\ gens[1].limit = NoLimit
    /\ Len(gens[1].emitted) = 100 /\ Len(gens[1].requests) = 1

\* what list_all(limit=lim) emits over n records when it runs alone
AloneCount(lim, n) == IF lim.set /\ lim.val # 0 THEN Min(lim.val, n) ELSE n

\* and the page size it asks for
AlonePageSize(lim) == IF lim.set /\ lim.val # 0 THEN Min(100, lim.val) ELSE 100

\* C18: two generators of one collection object, advanced in any
\* interleaving, do not disturb each other: each requests its own pages
\* 1, 2, 3, ... with its own page size, counts its own records against its
\* own limit, and ends with exactly the records it emits when run alone.
C18_Independent ==
    \A i \in DOMAIN gens :
        LET g == gens[i]
        IN  /\ \A k \in 1..Len(g.requests) :
                  /\ g.requests[k].page = k
                  /\ g.requests[k].page_size = AlonePageSize(g.limit)
            /\ g.emitted = FirstRecords(Len(g.emitted))
            /\ g.yield_count = Len(g.emitted)
            /\ Len(g.emitted) <= AloneCount(g.limit, remote)
            /\ g.pc = "done" =>
                  /\ g.emitted = FirstRecords(AloneCount(g.limit, remote))
                  /\ Len(g.requests) =
                        (IF g.limit.set /\ g.limit.val # 0 /\ g.limit.val <= remote
                         THEN CeilDiv(g.limit.val, AlonePageSize(g.limit))
                         ELSE (remote \div AlonePageSize(g.limit)) + 1)

C18_Witness ==
    /\ op = "list_all" /\ pc = "iterating" /\ remote = MaxPairRemote
    /\ gens[1].pc = "done" /\ gens[1].limit = NoLimit
    /\ Len(gens[1].emitted) = MaxPairRemote /\ Len(gens[1].requests) = 2
    /\ gens[2].pc = "done" /\ gens[2].limit = SomeLimit(101)
    /\ Len(gens[2].emitted) = 101 /\ Len(gens[2].requests) = 2

-----------------------------------------------------------------------------
(* Properties of the validators and of create / upsert, under SpecWrite *)

\* the keys a write to the collection must carry
RequiredKeys(c) ==
    IF c = "Entities" THEN {"organization_id"} ELSE {"organization_id", "timestamp"}

LacksRequired(c, d) == \E k \in RequiredKeys(c) : k \notin DOMAIN d

SomeRowLacksRequired(c, p) == \E i \in 1..Len(p.rows) : LacksRequired(c, p.rows[i])

WriteDone == pc = "done" /\ op \in {"create", "upsert"}

\* C1: create with a payload that lacks a required key, and upsert with a
\* list one of whose elements lacks a required key, raise ValidationError
\* with no transport call made.
C1_InvalidWriteSendsNothing ==
    /\ (WriteDone /\ op = "create" /\ LacksRequired(coll, payload.dict)) =>
           (outcome.kind = "ValidationError" /\ calls = <<>>)
    /\ (WriteDone /\ op = "upsert" /\ payload.type = "list"
            /\ SomeRowLacksRequired(coll, payload)) =>
           (outcome.kind = "ValidationError" /\ calls = <<>>)

C1_Witness ==
    /\ WriteDone /\ op = "create" /\ coll = "DataSources"
    /\ DOMAIN payload.dict = {"organization_id", "name"}
    /\ outcome.kind = "ValidationError" /\ calls = <<>>

\* C10: create raises ValidationError exactly when the payload's keys do not
\* contain the required keys, whatever other keys it has; upsert raises
\* exactly when the payload is not a list or one of its elements lacks a
\* required key.
C10_ValidatorsExact ==
    /\ (WriteDone /\ op = "create") =>
           (outcome.kind = "ValidationError" <=> LacksRequired(coll, payload.dict))
    /\ (WriteDone /\ op = "upsert") =>
           (outcome.kind = "ValidationError" <=>
                (payload.type # "list" \/ SomeRowLacksRequired(coll, payload)))
    /\ WriteDone => outcome.kind \in {"ValidationError", "return"}

C10_Witness ==
    /\ WriteDone /\ op = "upsert" /\ coll = "Entities"
    /\ payload.type = "list" /\ Len(payload.rows) = 2
    /\ DOMAIN payload.rows[1] = {"organization_id", "name"}
    /\ DOMAIN payload.rows[2] = {"name"}
    /\ outcome.kind = "ValidationError"

\* C13: create with a payload that holds the required keys issues exactly
\* one POST to the collection path of that name with the caller's payload as
\* the unmodified body, and returns the transport's response.data unchanged.
C13_CreatePostsPayload ==
    (WriteDone /\ op = "create" /\ ~LacksRequired(coll, payload.dict)) =>
        /\ Len(calls) = 1
        /\ calls[1].method = "POST"
        /\ calls[1].endpoint =
              (IF coll = "Entities" THEN <<"entities", "widget", "entityobjects">>
               ELSE <<"datasources", "widget", "dataobjects">>)
        /\ calls[1].via = "data"
        /\ calls[1].body = [shape |-> "bare", payload |-> payload, delete_others |-> FALSE]
        /\ outcome.kind = "return"
        /\ outcome.data = [t |-> "list", v |-> data]

C13_Witness ==
    /\ WriteDone /\ op = "create" /\ coll = "Entities"
    /\ DOMAIN payload.dict = {"organization_id", "name"}
    /\ Len(calls) = 1 /\ calls[1].body.payload = payload
    /\ data = <<11>> /\ outcome.data.v = <<11>>

\* C19: update issues exactly one PATCH with the caller's payload and runs no
\* validation, so a payload without organization_id is sent too; delete
\* issues exactly one DELETE and returns None whatever the transport returned.
C19_UpdateAndDelete ==
    /\ (pc = "done" /\ op = "update") =>
          /\ Len(calls) = 1
          /\ calls[1].method = "PATCH"
          /\ calls[1].body = [shape |-> "bare", payload |-> payload, delete_others |-> FALSE]
          /\ outcome.kind = "return"
          /\ outcome.data = [t |-> "list", v |-> data]
    /\ (pc = "done" /\ op = "delete") =>
          /\ Len(calls) = 1
          /\ calls[1].method = "DELETE"
          /\ outcome.kind = "return"
          /\ outcome.data = JsonNull

C19_Witness ==
    /\ pc = "done" /\ op = "update" /\ coll = "DataSources"
    /\ DOMAIN payload.dict = {"name"}
    /\ Len(calls) = 1 /\ calls[1].method = "PATCH" /\ outcome.kind = "return"

-----------------------------------------------------------------------------
(* Properties of list, checked under SpecList *)

\* C9: list of each of the four collections issues exactly one request and
\* raises nothing; a page_size above 500 is sent as 500 with one warning
\* logged, a page_size of at most 500 is sent unchanged with no warning.
C9_PageSizeClamped ==
    (pc = "done" /\ op = "list") =>
        /\ Len(calls) = 1
        /\ outcome.kind = "return"
        /\ calls[1].page = pageArg
        /\ IF pageSizeArg > 500
           THEN calls[1].page_size = 500 /\ warnings = 1
           ELSE calls[1].page_size = pageSizeArg /\ warnings = 0

C9_Witness ==
    /\ pc = "done" /\ op = "list" /\ coll = "DataSources"
    /\ pageSizeArg = MaxPageSizeArg /\ calls[1].page_size = 500 /\ warnings = 1
    /\ outcome.kind = "return"

\* C21: the empty list passes the upsert validators: upsert(name, []) raises
\* no ValidationError and makes exactly one POST to the import sub-path; the
\* body of Entities is {entity_objects: [], delete_others: truncate} (an
\* empty batch with truncate = true does reach the service), the body of
\* DataSources is the empty list itself.
C21_EmptyUpsertIsSent ==
    (op = "upsert" /\ pc = "done" /\ payload.type = "list" /\ payload.rows = <<>>) =>
        /\ outcome.kind = "return"
        /\ Len(calls) = 1
        /\ calls[1].method = "POST"
        /\ calls[1].via = "data"
        /\ coll = "Entities" =>
              /\ calls[1].endpoint = <<"entities", ResourceName, "entityobjects", "import">>
              /\ calls[1].body.shape = "import"
              /\ calls[1].body.payload.rows = <<>>
              /\ calls[1].body.delete_others = truncate
        /\ coll = "DataSources" =>
              /\ calls[1].endpoint = <<"datasources", ResourceName, "dataobjects", "import">>
              /\ calls[1].body.shape = "bare"
              /\ calls[1].body.payload.type = "list"
              /\ calls[1].body.payload.rows = <<>>

C21_Witness ==
    /\ op = "upsert" /\ pc = "done" /\ coll = "Entities" /\ truncate
    /\ payload.type = "list" /\ payload.rows = <<>>
    /\ Len(calls) = 1 /\ calls[1].body.delete_others
    /\ outcome.kind = "return"

-----------------------------------------------------------------------------
(* Default arguments and client fields over a session, under SpecSession *)

\* C22: nothing leaks from one call into the next through the default
\* arguments: after any sequence of operations the default headers dict and
\* every default organizations list are still empty, a request caused by a
\* call that omitted headers carries only the auth header, a listing request
\* caused by a call that omitted organizations carries an empty
\* target_organization_ids, and the client's domain, API key, version and
\* base URL are the ones it was built with.
C22_NoLeakThroughDefaults ==
    /\ defaults.headers = EmptyDict
    /\ \A f \in DOMAIN defaults.organizations : defaults.organizations[f] = <<>>
    /\ client.domain = Domain /\ client.api_key = ApiKey /\ client.version = Version
    /\ client.url = <<"https://", Domain, ".boardsonfireapp.com/api/", Version, "/">>
    /\ \A i \in 1..Len(netCalls) :
          LET r == netCalls[i]
              c == calls[r.by]
          IN  /\ ~c.headers.given => r.headers = [k \in {"x-api-key"} |-> ApiKey]
              /\ (c.op \in {"list", "list_all"} /\ ~c.organizations.given) =>
                    r.has_target /\ r.target_organization_ids = <<>>
              /\ SubSeq(r.url, 1, 5) = client.url

C22_Witness ==
    /\ pc = "session" /\ Len(calls) = MaxSessionCalls
    /\ calls[1].op = "send" /\ calls[1].headers = Given([k \in {"x-trace"} |-> "t1"])
    /\ calls[2].op = "list_all" /\ calls[2].organizations = Given(<<"o1", "o2">>)
    /\ netCalls[2].target_organization_ids = <<"o1", ",", "o2">>
    /\ calls[Len(calls)].op = "list_all" /\ ~calls[Len(calls)].organizations.given
    /\ calls[Len(calls)].coll = calls[2].coll
    /\ netCalls[Len(netCalls)].target_organization_ids = <<>>
    /\ netCalls[Len(netCalls)].headers = [k \in {"x-api-key"} |-> ApiKey]

=============================================================================
